--------------------------- MODULE Spec2Model ---------------------------
(***************************************************************************)
(* Space-Rover: sensor-fusion navigation decision and dead-reckoning pose. *)
(*                                                                         *)
(*   rover_project/rover_main.py          RoverMainControl                 *)
(*   rover_project/motor_controller_1.py  MotorController                  *)
(*                                                                         *)
(* Durations are written in tenths of a second (0.5 s = 5, 2.0 s = 20).    *)
(* Python's None is the string "None"; a dict is a function whose DOMAIN   *)
(* is its key set, so dict.get(key, default) keeps its default.            *)
(***************************************************************************)
EXTENDS Integers, Sequences, FiniteSets, TLC

VARIABLES
    ir_status,        \* dict direction -> bool handed to the fusion logic
    camera_decision,  \* dict returned by the camera arbiter
    decision,         \* dict returned by make_navigation_decision
    motor_command,    \* call made by navigate_with_camera_and_ir
    position,         \* RoverMainControl.position
    updates,          \* history: the update_position calls made so far
    cameras,          \* RoverMultiCameraDetector.cameras: its keys, in dict order
    frames,           \* what each camera's next read and detection give
    closed,           \* the cameras whose source is closed or disconnected
    image,            \* the frame a camera delivers: its width and height
    contours,         \* the contours cv2.findContours gives for that frame
    obstacles,        \* the list detect_obstacles returned
    reading,          \* the dict analyze_direction returned
    detect_raised,    \* an exception escaped analyze_direction
    ir_pins,          \* SensorManager.ir_pins: the configured directions
    gpio,             \* what GPIO.input gives for each configured pin
    ir_raised,        \* an exception escaped read_all_ir_sensors
    ir_reads,         \* history: the read_all_ir_sensors calls made so far
    pc,               \* where RoverMainControl.run is
    loop_count,       \* run's loop_count
    data_log,         \* RoverMainControl.data_log
    log_file,         \* the entries last written to rover_data_log.json
    now,              \* time.time(), in tenths of a second
    last_study_time,  \* RoverMainControl.last_study_time
    auto_study_enabled, \* config['auto_study_enabled']
    motors_connected, \* the motor calls of execute_action and stop are live
    motors,           \* "idle" or "running"
    elapsed,          \* history: how long this tick's motor command took
    tick_updates,     \* history: update_position calls made in this tick
    executed,         \* history: decisions whose motor command has run
    failures          \* history: motor commands that raised

detectorVars == <<cameras, frames, closed, image, contours, obstacles, reading,
                  detect_raised>>

sensorVars == <<ir_pins, gpio, ir_raised, ir_reads>>

configVars == <<auto_study_enabled, motors_connected>>

loopVars == <<pc, loop_count, data_log, log_file, now, last_study_time,
              configVars, motors, elapsed, tick_updates, executed, failures>>

vars == <<ir_status, camera_decision, decision, motor_command, position, updates,
          detectorVars, sensorVars, loopVars>>

None == "None"

IrDirections == {"front", "back", "left", "right"}

\* Values the arbiter's 'recommended_direction' can carry; "up" stands for
\* any string that is none of the four directions nor 'stop'.
Recommendations == {"front", "left", "right", "back", "stop", "up"}

\* dict.get(key, default)
Get(d, key, default) == IF key \in DOMAIN d THEN d[key] ELSE default

\* Every IR snapshot: a dict over any subset of the four directions.
IrSnapshots == UNION {[S -> BOOLEAN] : S \in SUBSET IrDirections}

\* Every camera decision: with or without the 'recommended_direction' key.
CameraDecisions ==
    [{"recommended_direction"} -> Recommendations] \cup {[k \in {} |-> "stop"]}

\* A dict with no keys.
EmptyDict == [k \in {} |-> "stop"]

Decision(action, direction, duration) ==
    [action |-> action, direction |-> direction, duration |-> duration]

NoDecision == Decision("none", None, 0)

(***************************************************************************)
(* RoverMainControl.make_navigation_decision, rover_main.py:297-347, as a  *)
(* function of the IR snapshot and the camera decision it reads at         *)
(* 290-295.                                                                *)
(***************************************************************************)
make_navigation_decision_front_moves(ir, cam) ==
    LET recommended_dir == Get(cam, "recommended_direction", "stop") IN
    IF recommended_dir = "front"
        THEN Decision("forward", "forward", 20)
    ELSE IF Get(ir, "front", FALSE)
        THEN Decision("stop", None, 0)
    ELSE IF recommended_dir = "left" /\ ~Get(ir, "left", FALSE)
        THEN Decision("turn_left", "left", 5)
    ELSE IF recommended_dir = "right" /\ ~Get(ir, "right", FALSE)
        THEN Decision("turn_right", "right", 5)
    ELSE IF recommended_dir = "back" /\ ~Get(ir, "back", FALSE)
        THEN Decision("backward", "backward", 10)
    ELSE Decision("spin_right", "spin_right", 8)

make_navigation_decision_stop_fallback(ir, cam) ==
    IF Get(ir, "front", FALSE)
        THEN Decision("stop", None, 0)
    ELSE LET recommended_dir == Get(cam, "recommended_direction", "stop") IN
    IF recommended_dir = "front" /\ ~Get(ir, "front", FALSE)
        THEN Decision("forward", "forward", 20)
    ELSE IF recommended_dir = "left" /\ ~Get(ir, "left", FALSE)
        THEN Decision("turn_left", "left", 5)
    ELSE IF recommended_dir = "right" /\ ~Get(ir, "right", FALSE)
        THEN Decision("turn_right", "right", 5)
    ELSE IF recommended_dir = "back" /\ ~Get(ir, "back", FALSE)
        THEN Decision("backward", "backward", 10)
    ELSE Decision("stop", None, 0)

make_navigation_decision_front_checks_left(ir, cam) ==
    IF Get(ir, "front", FALSE)
        THEN Decision("stop", None, 0)
    ELSE LET recommended_dir == Get(cam, "recommended_direction", "stop") IN
    IF recommended_dir = "front" /\ ~Get(ir, "left", FALSE)
        THEN Decision("forward", "forward", 20)
    ELSE IF recommended_dir = "left" /\ ~Get(ir, "left", FALSE)
        THEN Decision("turn_left", "left", 5)
    ELSE IF recommended_dir = "right" /\ ~Get(ir, "right", FALSE)
        THEN Decision("turn_right", "right", 5)
    ELSE IF recommended_dir = "back" /\ ~Get(ir, "back", FALSE)
        THEN Decision("backward", "backward", 10)
    ELSE Decision("spin_right", "spin_right", 8)

make_navigation_decision_stop_has_direction(ir, cam) ==
    IF Get(ir, "front", FALSE)
        THEN Decision("stop", "stop", 0)
    ELSE LET recommended_dir == Get(cam, "recommended_direction", "stop") IN
    IF recommended_dir = "front" /\ ~Get(ir, "front", FALSE)
        THEN Decision("forward", "forward", 20)
    ELSE IF recommended_dir = "left" /\ ~Get(ir, "left", FALSE)
        THEN Decision("turn_left", "left", 5)
    ELSE IF recommended_dir = "right" /\ ~Get(ir, "right", FALSE)
        THEN Decision("turn_right", "right", 5)
    ELSE IF recommended_dir = "back" /\ ~Get(ir, "back", FALSE)
        THEN Decision("backward", "backward", 10)
    ELSE Decision("spin_right", "spin_right", 8)

make_navigation_decision(ir, cam) ==
    IF Get(ir, "front", FALSE)
        THEN Decision("stop", None, 0)
    ELSE LET recommended_dir == Get(cam, "recommended_direction", "stop") IN
    IF recommended_dir = "front" /\ ~Get(ir, "front", FALSE)
        THEN Decision("forward", "forward", 20)
    ELSE IF recommended_dir = "left" /\ ~Get(ir, "left", FALSE)
        THEN Decision("turn_left", "left", 5)
    ELSE IF recommended_dir = "right" /\ ~Get(ir, "right", FALSE)
        THEN Decision("turn_right", "right", 5)
    ELSE IF recommended_dir = "back" /\ ~Get(ir, "back", FALSE)
        THEN Decision("backward", "backward", 10)
    ELSE Decision("spin_right", "spin_right", 8)

(***************************************************************************)
(* MotorController.navigate_with_camera_and_ir,                            *)
(* motor_controller_1.py:244-315: the movement method it calls.  timed is  *)
(* FALSE when the method is called without a duration (it then returns     *)
(* with the motors running).                                               *)
(***************************************************************************)
Command(method, timed, duration) ==
    [method |-> method, timed |-> timed, duration |-> duration]

NoCommand == Command("none", FALSE, 0)

navigate_with_camera_and_ir(cam, ir) ==
    IF Get(ir, "front", FALSE)
        THEN Command("stop", FALSE, 0)
    ELSE LET recommended_dir == Get(cam, "recommended_direction", "stop") IN
    IF recommended_dir = "front"
        THEN IF ~Get(ir, "front", FALSE)
                THEN Command("move_forward", FALSE, 0)
                ELSE Command("stop", FALSE, 0)
    ELSE IF recommended_dir = "left"
        THEN IF ~Get(ir, "left", FALSE)
                THEN Command("turn_left", TRUE, 5)
             ELSE IF ~Get(ir, "right", FALSE)
                THEN Command("turn_right", TRUE, 5)
             ELSE Command("stop", FALSE, 0)
    ELSE IF recommended_dir = "right"
        THEN IF ~Get(ir, "right", FALSE)
                THEN Command("turn_right", TRUE, 5)
             ELSE IF ~Get(ir, "left", FALSE)
                THEN Command("turn_left", TRUE, 5)
             ELSE Command("stop", FALSE, 0)
    ELSE IF recommended_dir = "back"
        THEN IF ~Get(ir, "back", FALSE)
                THEN Command("move_backward", TRUE, 8)
                ELSE Command("stop", FALSE, 0)
    ELSE Command("stop", FALSE, 0)

(***************************************************************************)
(* Floating point.  position['x'] and position['y'] are Python floats.     *)
(* The model keeps the shape of IEEE-754 binary arithmetic (a significand  *)
(* of Precision bits, round to nearest, ties to even, gradual underflow)   *)
(* at a reduced size: a value v is the integer v * 2^FracBits, and every   *)
(* arithmetic result is rounded to Precision significant bits.             *)
(***************************************************************************)
Precision == 5

FracBits == 8

RECURSIVE Pow2(_)
Pow2(n) == IF n = 0 THEN 1 ELSE 2 * Pow2(n - 1)

Abs(n) == IF n < 0 THEN -n ELSE n

\* Number of bits of the natural number n (0 for 0).
RECURSIVE BitLen(_)
BitLen(n) == IF n = 0 THEN 0 ELSE 1 + BitLen(n \div 2)

\* The integer nearest to num / den (den > 0), ties to the even one.
RoundHalfEven(num, den) ==
    LET q == num \div den
        r == num % den
    IN  IF 2 * r < den THEN q
        ELSE IF 2 * r > den THEN q + 1
        ELSE IF q % 2 = 0 THEN q ELSE q + 1

\* Spacing of the floats at the magnitude of n (one unit in the last place).
Ulp(n) ==
    LET bits == BitLen(Abs(n))
    IN  IF bits <= Precision THEN 1 ELSE Pow2(bits - Precision)

\* The float nearest to the exact value num / den (in units of 2^-FracBits).
FloatRound(num, den) ==
    LET step == Ulp(Abs(num) \div den)
    IN  RoundHalfEven(num, den * step) * step

\* The float a decimal literal num/den denotes (0.15 is FloatLit(15, 100)).
FloatLit(num, den) == FloatRound(num * Pow2(FracBits), den)

FloatAdd(a, b) == FloatRound(a + b, 1)

FloatSub(a, b) == FloatRound(a - b, 1)

FloatMul(a, b) == FloatRound(a * b, Pow2(FracBits))

\* self.distance_per_second = 0.15, rover_main.py:74
distance_per_second == FloatLit(15, 100)

\* math.cos(math.radians(h)) and math.sin(math.radians(h)) for the headings
\* the rover can have, to five decimals before rounding to a float.  Python
\* returns about 6e-17 where the exact value is 0; that is below the
\* smallest magnitude of the reduced format and underflows to 0.
Headings == {0, 45, 90, 135, 180, 225, 270, 315}

CosDeg(h) ==
    CASE h = 0   -> FloatLit(100000, 100000)
      [] h = 45  -> FloatLit(70711, 100000)
      [] h = 90  -> FloatLit(0, 100000)
      [] h = 135 -> FloatLit(-70711, 100000)
      [] h = 180 -> FloatLit(-100000, 100000)
      [] h = 225 -> FloatLit(-70711, 100000)
      [] h = 270 -> FloatLit(0, 100000)
      [] h = 315 -> FloatLit(70711, 100000)

SinDeg(h) ==
    CASE h = 0   -> FloatLit(0, 100000)
      [] h = 45  -> FloatLit(70711, 100000)
      [] h = 90  -> FloatLit(100000, 100000)
      [] h = 135 -> FloatLit(70711, 100000)
      [] h = 180 -> FloatLit(0, 100000)
      [] h = 225 -> FloatLit(-70711, 100000)
      [] h = 270 -> FloatLit(-100000, 100000)
      [] h = 315 -> FloatLit(-70711, 100000)

(***************************************************************************)
(* RoverMainControl.update_position, rover_main.py:103-134.  duration is   *)
(* in tenths of a second.  The heading only ever holds whole numbers of    *)
(* degrees between -90 and 450, which a Python float holds exactly, so it  *)
(* is kept as an integer; Python's float % 360 has the sign of 360, as     *)
(* TLA+'s % has.                                                           *)
(***************************************************************************)
Pose(x, y, heading) == [x |-> x, y |-> y, heading |-> heading]

update_position_unnormalised(pos, direction, duration) ==
    LET distance == FloatMul(distance_per_second, FloatLit(duration, 10)) IN
    CASE direction = "forward" ->
            Pose(FloatAdd(pos.x, FloatMul(distance, CosDeg(pos.heading))),
                 FloatAdd(pos.y, FloatMul(distance, SinDeg(pos.heading))),
                 pos.heading)
      [] direction = "backward" ->
            Pose(FloatSub(pos.x, FloatMul(distance, CosDeg(pos.heading))),
                 FloatSub(pos.y, FloatMul(distance, SinDeg(pos.heading))),
                 pos.heading)
      [] direction = "left"       -> Pose(pos.x, pos.y, pos.heading + 45)
      [] direction = "right"      -> Pose(pos.x, pos.y, pos.heading - 45)
      [] direction = "spin_left"  -> Pose(pos.x, pos.y, pos.heading + 90)
      [] direction = "spin_right" -> Pose(pos.x, pos.y, pos.heading - 90)
      [] OTHER -> pos

update_position_backward_ignores_heading(pos, direction, duration) ==
    LET distance == FloatMul(distance_per_second, FloatLit(duration, 10)) IN
    CASE direction = "forward" ->
            Pose(FloatAdd(pos.x, FloatMul(distance, CosDeg(pos.heading))),
                 FloatAdd(pos.y, FloatMul(distance, SinDeg(pos.heading))),
                 pos.heading)
      [] direction = "backward" ->
            Pose(FloatSub(pos.x, distance), pos.y, pos.heading)
      [] direction = "left"       -> Pose(pos.x, pos.y, (pos.heading + 45) % 360)
      [] direction = "right"      -> Pose(pos.x, pos.y, (pos.heading - 45) % 360)
      [] direction = "spin_left"  -> Pose(pos.x, pos.y, (pos.heading + 90) % 360)
      [] direction = "spin_right" -> Pose(pos.x, pos.y, (pos.heading - 90) % 360)
      [] OTHER -> pos

update_position_spin_copies_turn(pos, direction, duration) ==
    LET distance == FloatMul(distance_per_second, FloatLit(duration, 10)) IN
    CASE direction = "forward" ->
            Pose(FloatAdd(pos.x, FloatMul(distance, CosDeg(pos.heading))),
                 FloatAdd(pos.y, FloatMul(distance, SinDeg(pos.heading))),
                 pos.heading)
      [] direction = "backward" ->
            Pose(FloatSub(pos.x, FloatMul(distance, CosDeg(pos.heading))),
                 FloatSub(pos.y, FloatMul(distance, SinDeg(pos.heading))),
                 pos.heading)
      [] direction = "left"       -> Pose(pos.x, pos.y, (pos.heading + 45) % 360)
      [] direction = "right"      -> Pose(pos.x, pos.y, (pos.heading - 45) % 360)
      [] direction = "spin_left"  -> Pose(pos.x, pos.y, (pos.heading + 45) % 360)
      [] direction = "spin_right" -> Pose(pos.x, pos.y, (pos.heading - 45) % 360)
      [] OTHER -> pos

update_position_turn_scales_with_duration(pos, direction, duration) ==
    LET distance == FloatMul(distance_per_second, FloatLit(duration, 10)) IN
    CASE direction = "forward" ->
            Pose(FloatAdd(pos.x, FloatMul(distance, CosDeg(pos.heading))),
                 FloatAdd(pos.y, FloatMul(distance, SinDeg(pos.heading))),
                 pos.heading)
      [] direction = "backward" ->
            Pose(FloatSub(pos.x, FloatMul(distance, CosDeg(pos.heading))),
                 FloatSub(pos.y, FloatMul(distance, SinDeg(pos.heading))),
                 pos.heading)
      [] direction = "left"       ->
            Pose(pos.x, pos.y, (pos.heading + 9 * duration) % 360)
      [] direction = "right"      ->
            Pose(pos.x, pos.y, (pos.heading - 9 * duration) % 360)
      [] direction = "spin_left"  -> Pose(pos.x, pos.y, (pos.heading + 90) % 360)
      [] direction = "spin_right" -> Pose(pos.x, pos.y, (pos.heading - 90) % 360)
      [] OTHER -> pos

update_position(pos, direction, duration) ==
    LET distance == FloatMul(distance_per_second, FloatLit(duration, 10)) IN
    CASE direction = "forward" ->
            Pose(FloatAdd(pos.x, FloatMul(distance, CosDeg(pos.heading))),
                 FloatAdd(pos.y, FloatMul(distance, SinDeg(pos.heading))),
                 pos.heading)
      [] direction = "backward" ->
            Pose(FloatSub(pos.x, FloatMul(distance, CosDeg(pos.heading))),
                 FloatSub(pos.y, FloatMul(distance, SinDeg(pos.heading))),
                 pos.heading)
      [] direction = "left"       -> Pose(pos.x, pos.y, (pos.heading + 45) % 360)
      [] direction = "right"      -> Pose(pos.x, pos.y, (pos.heading - 45) % 360)
      [] direction = "spin_left"  -> Pose(pos.x, pos.y, (pos.heading + 90) % 360)
      [] direction = "spin_right" -> Pose(pos.x, pos.y, (pos.heading - 90) % 360)
      [] OTHER -> pos

\* self.position = {'x': 0.0, 'y': 0.0, 'heading': 0.0}, rover_main.py:73
InitialPosition == Pose(0, 0, 0)

\* The rover as rover_main.py:57-63 builds it: the one front camera, the
\* four IR pins of sensor_config, nothing read yet.
DetectorUnused ==
    /\ cameras = <<"front">>
    /\ frames = [d \in {"front"} |-> [ret |-> TRUE, obstacle_count |-> 0,
                                       path_obstacles |-> 0]]
    /\ closed = {}
    /\ image = [width |-> 0, height |-> 0]
    /\ contours = <<>>
    /\ obstacles = <<>>
    /\ reading = EmptyDict
    /\ detect_raised = FALSE

SensorsUnused ==
    /\ ir_pins = IrDirections
    /\ gpio = [d \in IrDirections |-> "HIGH"]
    /\ ir_raised = FALSE
    /\ ir_reads = 0

\* self.study_interval = 30 (seconds), rover_main.py:68
study_interval == 300

\* The rover before run() is called, as __init__ leaves it
\* (rover_main.py:66-78, 86-92).  time.time() is far beyond study_interval
\* when the program starts; the clock starts at study_interval, the least
\* such value.
LoopNotStarted ==
    /\ pc = "init"
    /\ loop_count = 0
    /\ data_log = <<>>
    /\ log_file = <<>>
    /\ now = study_interval
    /\ last_study_time = 0
    /\ auto_study_enabled = TRUE
    /\ motors_connected = FALSE
    /\ motors = "idle"
    /\ elapsed = 0
    /\ tick_updates = 0
    /\ executed = 0
    /\ failures = 0

(***************************************************************************)
(* Specification of the fusion logic: every IR snapshot and every camera   *)
(* decision, and the two fusion functions applied to them.                 *)
(***************************************************************************)
InitDecide ==
    /\ ir_status \in IrSnapshots
    /\ camera_decision \in CameraDecisions
    /\ decision = NoDecision
    /\ motor_command = NoCommand
    /\ position = InitialPosition
    /\ updates = <<>>
    /\ DetectorUnused
    /\ SensorsUnused
    /\ LoopNotStarted

MakeNavigationDecision ==
    /\ decision = NoDecision
    /\ decision' = make_navigation_decision(ir_status, camera_decision)
    /\ UNCHANGED <<ir_status, camera_decision, motor_command, position, updates,
                   detectorVars, sensorVars, loopVars>>

NavigateWithCameraAndIr ==
    /\ motor_command = NoCommand
    /\ motor_command' = navigate_with_camera_and_ir(camera_decision, ir_status)
    /\ UNCHANGED <<ir_status, camera_decision, decision, position, updates,
                   detectorVars, sensorVars, loopVars>>

NextDecide == MakeNavigationDecision \/ NavigateWithCameraAndIr

SpecDecide == InitDecide /\ [][NextDecide]_vars

(***************************************************************************)
(* Specification of the pose: update_position applied, from the initial    *)
(* pose, to every sequence of at most MaxUpdates directions and durations. *)
(***************************************************************************)
MaxUpdates == 4

\* The directions execute_action can pass (a decision's 'direction'), and
\* 'stop', which matches no branch.
UpdateDirections ==
    {"forward", "backward", "left", "right", "spin_left", "spin_right", "stop"}

\* Elapsed times, in tenths of a second: the durations of the backward and
\* forward decisions (rover_main.py:338, 314).
UpdateDurations == {10, 20}

InitPose ==
    /\ ir_status = [d \in IrDirections |-> FALSE]
    /\ camera_decision = [k \in {"recommended_direction"} |-> "front"]
    /\ decision = NoDecision
    /\ motor_command = NoCommand
    /\ position = InitialPosition
    /\ updates = <<>>
    /\ DetectorUnused
    /\ SensorsUnused
    /\ LoopNotStarted

UpdatePosition ==
    /\ Len(updates) < MaxUpdates
    /\ \E direction \in UpdateDirections, duration \in UpdateDurations :
        /\ position' = update_position(position, direction, duration)
        /\ updates' = Append(updates, [direction |-> direction,
                                       duration |-> duration,
                                       before |-> position])
    /\ UNCHANGED <<ir_status, camera_decision, decision, motor_command,
                   detectorVars, sensorVars, loopVars>>

NextPose == UpdatePosition

SpecPose == InitPose /\ [][NextPose]_vars

(***************************************************************************)
(* Properties of the fusion logic, checked under SpecDecide.               *)
(***************************************************************************)
Decided == decision # NoDecision

Commanded == motor_command # NoCommand

Recommended == Get(camera_decision, "recommended_direction", "stop")

FrontBlocked == Get(ir_status, "front", FALSE)

LeftBlocked == Get(ir_status, "left", FALSE)

RightBlocked == Get(ir_status, "right", FALSE)

BackBlocked == Get(ir_status, "back", FALSE)

StopDecision == Decision("stop", None, 0)

\* C1: with the front proximity sensor triggered, whatever the camera
\* recommends (or fails to recommend), the decision is stop with direction
\* None and duration 0, and the motor controller's fusion calls stop(), no
\* movement method.
C1_FrontBlockedStops ==
    FrontBlocked =>
        /\ Decided => decision = StopDecision
        /\ Commanded => motor_command.method = "stop"

C1_Witness ==
    /\ FrontBlocked
    /\ Recommended = "front"
    /\ decision = StopDecision
    /\ motor_command.method = "stop"

\* C2: front clear, camera recommends left, left blocked, right clear (any
\* back): the decision is turn_right, direction right, 0.5 s.
C2_LeftFallsBackToRight ==
    (Decided /\ ~FrontBlocked /\ Recommended = "left"
             /\ LeftBlocked /\ ~RightBlocked)
        => decision = Decision("turn_right", "right", 5)

\* C3: front clear, camera recommends left, left and right both blocked:
\* the decision is stop with direction None and duration 0.
C3_LeftBothSidesBlockedStops ==
    (Decided /\ ~FrontBlocked /\ Recommended = "left"
             /\ LeftBlocked /\ RightBlocked)
        => decision = StopDecision

\* C4: front clear, camera recommends right: turn_right 0.5 s if right is
\* clear, otherwise turn_left 0.5 s if left is clear, otherwise stop.
C4_RightSymmetricFallback ==
    (Decided /\ ~FrontBlocked /\ Recommended = "right")
        => decision =
             IF ~RightBlocked THEN Decision("turn_right", "right", 5)
             ELSE IF ~LeftBlocked THEN Decision("turn_left", "left", 5)
             ELSE StopDecision

\* C5: front clear, camera recommends back: backward 1.0 s if back is
\* clear, stop (direction None, duration 0) if back is blocked.
C5_BackOrStop ==
    (Decided /\ ~FrontBlocked /\ Recommended = "back")
        => decision =
             IF ~BackBlocked THEN Decision("backward", "backward", 10)
             ELSE StopDecision

\* C6: front clear and the camera recommendation is 'stop', absent, or not
\* one of the four directions: the decision is spin_right, direction
\* spin_right, 0.8 s.
C6_NoRecommendationSpinsRight ==
    (Decided /\ ~FrontBlocked
             /\ Recommended \notin {"front", "left", "right", "back"})
        => decision = Decision("spin_right", "spin_right", 8)

C6_Witness ==
    /\ ~FrontBlocked
    /\ "recommended_direction" \notin DOMAIN camera_decision
    /\ LeftBlocked /\ RightBlocked /\ BackBlocked
    /\ decision = Decision("spin_right", "spin_right", 8)

\* C7: front clear and the camera recommends front: the decision is
\* forward, direction forward, 2.0 s, whatever left, right and back read.
C7_FrontRecommendedGoesForward ==
    (Decided /\ ~FrontBlocked /\ Recommended = "front")
        => decision = Decision("forward", "forward", 20)

C7_Witness ==
    /\ ~FrontBlocked /\ Recommended = "front"
    /\ LeftBlocked /\ RightBlocked /\ BackBlocked
    /\ decision = Decision("forward", "forward", 20)

\* C8: every decision the engine returns has direction None exactly when
\* its action is stop.
C8_DirectionNoneIffStop ==
    Decided => (decision.direction = None <=> decision.action = "stop")

C8_Witness ==
    /\ Decided
    /\ decision.action = "stop"
    /\ decision.direction = None

(***************************************************************************)
(* Properties of the pose, checked under SpecPose.                         *)
(***************************************************************************)
Last(n) == updates[Len(updates) + 1 - n]

\* C9: after any sequence of position updates from the initial pose the
\* heading is at least 0 and less than 360.
C9_HeadingNormalised ==
    position.heading >= 0 /\ position.heading < 360

C9_Witness ==
    /\ Len(updates) >= 1
    /\ Last(1).direction = "spin_right"
    /\ Last(1).before.heading = 0
    /\ position.heading = 270

\* The last two updates were forward then backward with the same time.
RoundTripDone ==
    /\ Len(updates) >= 2
    /\ Last(2).direction = "forward"
    /\ Last(1).direction = "backward"
    /\ Last(2).duration = Last(1).duration

\* C10 as stated: forward t then backward t returns x and y to exactly
\* their values before the two updates, and the heading is unchanged.
C10_RoundTripExact ==
    RoundTripDone =>
        /\ position.x = Last(2).before.x
        /\ position.y = Last(2).before.y
        /\ Last(1).before.heading = Last(2).before.heading
        /\ position.heading = Last(2).before.heading

\* C10 amended: forward t then backward t returns x and y to their values
\* before the two updates to within one unit in the last place of the
\* intermediate coordinate, and neither update changes the heading.
C10_RoundTripWithinUlp ==
    RoundTripDone =>
        /\ Abs(position.x - Last(2).before.x) <= Ulp(Last(1).before.x)
        /\ Abs(position.y - Last(2).before.y) <= Ulp(Last(1).before.y)
        /\ Last(1).before.heading = Last(2).before.heading
        /\ position.heading = Last(2).before.heading

C10_Witness ==
    /\ RoundTripDone
    /\ Last(2).before.heading = 45
    /\ Last(1).before.x # Last(2).before.x
    /\ Last(1).before.y # Last(2).before.y
    /\ position.x # Last(2).before.x

(***************************************************************************)
(* Specification of the heading: update_position applied, from every       *)
(* heading and from the origin or one forward move away from it, to every  *)
(* sequence of at most MaxTurns turns and spins.                           *)
(***************************************************************************)
MaxTurns == 4

TurnDirections == {"left", "right", "spin_left", "spin_right"}

\* Elapsed times, in tenths of a second: the durations of the turn and spin
\* decisions (rover_main.py:322, 346).
TurnDurations == {5, 8}

TurnStartPoses ==
    {Pose(p.x, p.y, h) :
        p \in {InitialPosition, update_position(InitialPosition, "forward", 20)},
        h \in Headings}

InitTurn ==
    /\ ir_status = [d \in IrDirections |-> FALSE]
    /\ camera_decision = [k \in {"recommended_direction"} |-> "front"]
    /\ decision = NoDecision
    /\ motor_command = NoCommand
    /\ position \in TurnStartPoses
    /\ updates = <<>>
    /\ DetectorUnused
    /\ SensorsUnused
    /\ LoopNotStarted

UpdatePositionTurn ==
    /\ Len(updates) < MaxTurns
    /\ \E direction \in TurnDirections, duration \in TurnDurations :
        /\ position' = update_position(position, direction, duration)
        /\ updates' = Append(updates, [direction |-> direction,
                                       duration |-> duration,
                                       before |-> position])
    /\ UNCHANGED <<ir_status, camera_decision, decision, motor_command,
                   detectorVars, sensorVars, loopVars>>

NextTurn == UpdatePositionTurn

SpecTurn == InitTurn /\ [][NextTurn]_vars

(***************************************************************************)
(* Properties of the heading, checked under SpecTurn.                      *)
(***************************************************************************)
FourSpinRights ==
    /\ Len(updates) >= 4
    /\ \A n \in 1..4 : Last(n).direction = "spin_right"

\* C11: from any heading, four consecutive spin_right updates leave the
\* heading where it was, and leave x and y unchanged.
C11_FourSpinRightsReturn ==
    FourSpinRights => position = Last(4).before

C11_Witness ==
    /\ FourSpinRights
    /\ Last(4).before.heading = 45
    /\ Last(4).before.x # 0
    /\ position.heading = 45

TurnAngle(direction) ==
    CASE direction = "left" -> 45
      [] direction = "right" -> -45
      [] direction = "spin_left" -> 90
      [] direction = "spin_right" -> -90

\* C12: a left / right update changes the heading by exactly +45 / -45
\* degrees and a spin_left / spin_right update by exactly +90 / -90 degrees
\* (modulo 360), whatever elapsed time it is given, and x and y stay as
\* they were.
C12_FixedTurnAngles ==
    (Len(updates) >= 1 /\ Last(1).direction \in TurnDirections) =>
        /\ position.heading =
             (Last(1).before.heading + TurnAngle(Last(1).direction)) % 360
        /\ position.x = Last(1).before.x
        /\ position.y = Last(1).before.y

C12_Witness ==
    /\ Len(updates) >= 2
    /\ Last(2).direction = "left" /\ Last(2).duration = 8
    /\ Last(1).direction = "left" /\ Last(1).duration = 5
    /\ Last(2).before.heading = 315
    /\ Last(1).before.heading = 0
    /\ position.heading = 45
    /\ position.x # 0

(***************************************************************************)
(* RoverMultiCameraDetector, obstacle_detector.py.  cameras is the key     *)
(* sequence of self.cameras (a dict keeps insertion order: the order of    *)
(* camera_indices, less the cameras that failed to open).  frames[d] is    *)
(* what the next cap.read() and detect_obstacles give for camera d: ret,   *)
(* the number of obstacles and the number of those with in_path.           *)
(***************************************************************************)
MaxObstacles == 2

Range(seq) == {seq[i] : i \in DOMAIN seq}

\* analyze_direction, obstacle_detector.py:91-121 (the keys the arbiter reads)
analyze_direction_ignores_ret(cams, frms, direction_name) ==
    IF direction_name \notin Range(cams)
        THEN [available |-> FALSE, clear |-> FALSE, obstacle_count |-> 0]
    ELSE [available |-> TRUE,
          clear |-> frms[direction_name].path_obstacles = 0,
          obstacle_count |-> frms[direction_name].obstacle_count,
          path_obstacles |-> frms[direction_name].path_obstacles]

analyze_direction_clear_without_obstacles(cams, frms, direction_name) ==
    IF direction_name \notin Range(cams)
        THEN [available |-> FALSE, clear |-> FALSE, obstacle_count |-> 0]
    ELSE IF ~frms[direction_name].ret
        THEN [available |-> FALSE, clear |-> FALSE, obstacle_count |-> 0]
    ELSE [available |-> TRUE,
          clear |-> frms[direction_name].obstacle_count = 0,
          obstacle_count |-> frms[direction_name].obstacle_count,
          path_obstacles |-> frms[direction_name].path_obstacles]

analyze_direction(cams, frms, direction_name) ==
    IF direction_name \notin Range(cams)
        THEN [available |-> FALSE, clear |-> FALSE, obstacle_count |-> 0]
    ELSE IF ~frms[direction_name].ret
        THEN [available |-> FALSE, clear |-> FALSE, obstacle_count |-> 0]
    ELSE [available |-> TRUE,
          clear |-> frms[direction_name].path_obstacles = 0,
          obstacle_count |-> frms[direction_name].obstacle_count,
          path_obstacles |-> frms[direction_name].path_obstacles]

\* priority = ['front', 'left', 'right', 'back'], obstacle_detector.py:137
priority == <<"front", "left", "right", "back">>

\* The first element of seq with the least key (Python's min(seq, key=...)).
FirstMin(seq, key) ==
    seq[CHOOSE i \in DOMAIN seq :
            /\ \A j \in DOMAIN seq : key[seq[i]] <= key[seq[j]]
            /\ \A j \in 1..(i - 1) : key[seq[i]] < key[seq[j]]]

\* The first element of seq that is in passing.
First(seq, passing) ==
    seq[CHOOSE i \in DOMAIN seq :
            seq[i] \in passing /\ \A j \in 1..(i - 1) : seq[j] \notin passing]

\* get_best_direction, obstacle_detector.py:123-168 (without 'reason' and
\* 'all_results')
get_best_direction_config_order(cams, frms) ==
    LET results == [d \in Range(cams) |-> analyze_direction(cams, frms, d)]
        IsClear(d) == d \in DOMAIN results /\ results[d].clear
        Clears == {d \in DOMAIN results : results[d].clear}
        IsAvailable(d) == results[d].available
        available_results == SelectSeq(cams, IsAvailable)
        PathObstacles == [d \in DOMAIN results |-> results[d].path_obstacles]
    IN  IF \E i \in DOMAIN cams : IsClear(cams[i])
            THEN [recommended_direction |-> First(cams, Clears),
                  should_move |-> TRUE]
        ELSE IF available_results # <<>>
            THEN [recommended_direction |->
                      FirstMin(available_results, PathObstacles),
                  should_move |-> TRUE,
                  caution |-> TRUE]
        ELSE [recommended_direction |-> "stop", should_move |-> FALSE]

get_best_direction_stop_unless_clear(cams, frms) ==
    LET results == [d \in Range(cams) |-> analyze_direction(cams, frms, d)]
        IsClear(d) == d \in DOMAIN results /\ results[d].clear
        Clears == {d \in DOMAIN results : results[d].clear}
    IN  IF \E i \in DOMAIN priority : IsClear(priority[i])
            THEN [recommended_direction |-> First(priority, Clears),
                  should_move |-> TRUE]
        ELSE [recommended_direction |-> "stop", should_move |-> FALSE]

get_best_direction(cams, frms) ==
    LET results == [d \in Range(cams) |-> analyze_direction(cams, frms, d)]
        IsClear(d) == d \in DOMAIN results /\ results[d].clear
        Clears == {d \in DOMAIN results : results[d].clear}
        IsAvailable(d) == results[d].available
        available_results == SelectSeq(cams, IsAvailable)
        PathObstacles == [d \in DOMAIN results |-> results[d].path_obstacles]
    IN  IF \E i \in DOMAIN priority : IsClear(priority[i])
            THEN [recommended_direction |-> First(priority, Clears),
                  should_move |-> TRUE]
        ELSE IF available_results # <<>>
            THEN [recommended_direction |->
                      FirstMin(available_results, PathObstacles),
                  should_move |-> TRUE,
                  caution |-> TRUE]
        ELSE [recommended_direction |-> "stop", should_move |-> FALSE]

(***************************************************************************)
(* Specification of the arbiter: every set of opened cameras in every      *)
(* dict order, every frame outcome, and get_best_direction applied.        *)
(***************************************************************************)
CameraOrders ==
    {c \in UNION {[1..n -> IrDirections] : n \in 0..Cardinality(IrDirections)} :
        \A i, j \in DOMAIN c : i # j => c[i] # c[j]}

FrameOutcomes ==
    {[ret |-> FALSE, obstacle_count |-> 0, path_obstacles |-> 0]}
    \cup {o \in [ret : {TRUE}, obstacle_count : 0..MaxObstacles,
                 path_obstacles : 0..MaxObstacles] :
             o.path_obstacles <= o.obstacle_count}

InitArbiter ==
    /\ ir_status = [d \in IrDirections |-> FALSE]
    /\ camera_decision = EmptyDict
    /\ decision = NoDecision
    /\ motor_command = NoCommand
    /\ position = InitialPosition
    /\ updates = <<>>
    /\ cameras \in CameraOrders
    /\ frames \in [Range(cameras) -> FrameOutcomes]
    /\ closed = {}
    /\ image = [width |-> 0, height |-> 0]
    /\ contours = <<>>
    /\ obstacles = <<>>
    /\ reading = EmptyDict
    /\ detect_raised = FALSE
    /\ SensorsUnused
    /\ LoopNotStarted

GetBestDirection ==
    /\ camera_decision = EmptyDict
    /\ camera_decision' = get_best_direction(cameras, frames)
    /\ UNCHANGED <<ir_status, decision, motor_command, position, updates,
                   detectorVars, sensorVars, loopVars>>

NextArbiter == GetBestDirection

SpecArbiter == InitArbiter /\ [][NextArbiter]_vars

(***************************************************************************)
(* Properties of the arbiter, checked under SpecArbiter.                   *)
(***************************************************************************)
Arbitrated == camera_decision # EmptyDict

\* The reading of direction d is available / is available and clear.
Available(d) == d \in Range(cameras) /\ frames[d].ret

Clear(d) == Available(d) /\ frames[d].path_obstacles = 0

\* Place of a direction in the order Front, Left, Right, Back.
Rank(d) ==
    CASE d = "front" -> 1 [] d = "left" -> 2 [] d = "right" -> 3 [] d = "back" -> 4

\* C13: if some direction is available and clear, the arbiter returns the
\* first such direction in the order Front, Left, Right, Back, without the
\* caution flag, whatever the other directions read.
C13_FirstClearByPriority ==
    (Arbitrated /\ \E d \in IrDirections : Clear(d)) =>
        /\ \E d \in IrDirections :
              /\ Clear(d)
              /\ \A e \in IrDirections : Clear(e) => Rank(d) <= Rank(e)
              /\ camera_decision.recommended_direction = d
        /\ "caution" \notin DOMAIN camera_decision

C13_Witness ==
    /\ Arbitrated
    /\ cameras = <<"back", "right", "left", "front">>
    /\ Available("front") /\ ~Clear("front")
    /\ ~Available("left")
    /\ Clear("right") /\ Clear("back")
    /\ camera_decision.recommended_direction = "right"

\* C14: if no direction is available and clear but some direction is
\* available, the arbiter returns, with caution, the available direction
\* with the fewest in-path obstacles, and of several with that fewest the
\* first in the order Front, Left, Right, Back, whatever order the cameras
\* were configured in.
C14_FewestObstaclesTiesByPriority ==
    (Arbitrated /\ (\A d \in IrDirections : ~Clear(d))
                /\ (\E d \in IrDirections : Available(d))) =>
        /\ \E d \in IrDirections :
              /\ Available(d)
              /\ \A e \in IrDirections : Available(e) =>
                    \/ frames[d].path_obstacles < frames[e].path_obstacles
                    \/ /\ frames[d].path_obstacles = frames[e].path_obstacles
                       /\ Rank(d) <= Rank(e)
              /\ camera_decision.recommended_direction = d
        /\ "caution" \in DOMAIN camera_decision
        /\ camera_decision.caution

\* C15: the arbiter returns stop (should not move) exactly when no
\* direction is available; with any direction available it returns one of
\* the four directions.
C15_StopIffNoneAvailable ==
    Arbitrated =>
        /\ camera_decision.recommended_direction = "stop"
              <=> \A d \in IrDirections : ~Available(d)
        /\ ~camera_decision.should_move
              <=> \A d \in IrDirections : ~Available(d)
        /\ (\E d \in IrDirections : Available(d))
              => camera_decision.recommended_direction \in IrDirections

C15_Witness ==
    /\ Arbitrated
    /\ Len(cameras) = 3
    /\ \E d \in IrDirections : Available(d)
    /\ \A d \in IrDirections : ~Clear(d)
    /\ \E d \in Range(cameras) : ~Available(d)
    /\ camera_decision.recommended_direction \in IrDirections
    /\ camera_decision.should_move

\* C16: the direction the arbiter recommends is never one whose reading is
\* unavailable (no frame, camera never configured or never opened).
C16_NeverRecommendsUnavailable ==
    (Arbitrated /\ camera_decision.recommended_direction # "stop") =>
        Available(camera_decision.recommended_direction)

C16_Witness ==
    /\ Arbitrated
    /\ "front" \in Range(cameras) /\ ~Available("front")
    /\ "left" \notin Range(cameras)
    /\ Available("back") /\ ~Clear("back")
    /\ camera_decision.recommended_direction = "back"

(***************************************************************************)
(* SensorManager IR functions, sensor_manager.py:198-232.  gpio[d] is what *)
(* GPIO.input gives for the pin of direction d: "LOW" (0), "HIGH" (1), or  *)
(* "error" when it raises.  An Optional[bool] is <<>> for None and <<b>>   *)
(* for the boolean b; raised says that an exception left the function.     *)
(***************************************************************************)
GpioOutcomes == {"LOW", "HIGH", "error"}

Returned(value) == [raised |-> FALSE, value |-> value]

Raised == [raised |-> TRUE, value |-> <<>>]

read_ir_sensor_unguarded(pins, io, direction) ==
    IF direction \notin pins
        THEN Returned(<<>>)
    ELSE IF io[direction] = "error"
        THEN Raised
    ELSE Returned(<<io[direction] = "LOW">>)

read_ir_sensor(pins, io, direction) ==
    IF direction \notin pins
        THEN Returned(<<>>)
    ELSE IF io[direction] = "error"
        THEN Returned(<<>>)
    ELSE Returned(<<io[direction] = "LOW">>)

read_all_ir_sensors(pins, io) ==
    LET obstacle == [direction \in pins |-> read_ir_sensor(pins, io, direction)]
    IN  IF \E direction \in pins : obstacle[direction].raised
            THEN [raised |-> TRUE, value |-> EmptyDict]
        ELSE [raised |-> FALSE,
              value |-> [direction \in pins |->
                            IF obstacle[direction].value # <<>>
                                THEN obstacle[direction].value[1]
                                ELSE FALSE]]

(***************************************************************************)
(* Specification of the IR sensors: every set of configured pins, every    *)
(* outcome of each pin's read, and read_all_ir_sensors applied.            *)
(***************************************************************************)
InitSensors ==
    /\ ir_status = EmptyDict
    /\ camera_decision = [k \in {"recommended_direction"} |-> "front"]
    /\ decision = NoDecision
    /\ motor_command = NoCommand
    /\ position = InitialPosition
    /\ updates = <<>>
    /\ DetectorUnused
    /\ ir_pins \in SUBSET IrDirections
    /\ gpio \in [ir_pins -> GpioOutcomes]
    /\ ir_raised = FALSE
    /\ ir_reads = 0
    /\ LoopNotStarted

ReadAllIrSensors ==
    /\ ir_reads = 0
    /\ LET result == read_all_ir_sensors(ir_pins, gpio)
       IN  /\ ir_raised' = result.raised
           /\ ir_status' = IF result.raised THEN ir_status ELSE result.value
    /\ ir_reads' = ir_reads + 1
    /\ UNCHANGED <<camera_decision, decision, motor_command, position, updates,
                   detectorVars, ir_pins, gpio, loopVars>>

NextSensors == ReadAllIrSensors

SpecSensors == InitSensors /\ [][NextSensors]_vars

(***************************************************************************)
(* Properties of the IR sensors, checked under SpecSensors.                *)
(***************************************************************************)
\* C19: read_all_ir_sensors lets no error out; its result has one boolean
\* entry per configured direction, false where the read failed and
\* otherwise true exactly when the pin signals an obstacle (LOW); a
\* direction that is not configured reads as None, without error, and as
\* false (clear) to the fusion logic.
C19_ReadAllNeverFails ==
    ir_reads > 0 =>
        /\ ~ir_raised
        /\ DOMAIN ir_status = ir_pins
        /\ \A d \in ir_pins : ir_status[d] = (gpio[d] = "LOW")
        /\ \A d \in IrDirections \ ir_pins :
              /\ read_ir_sensor(ir_pins, gpio, d) = Returned(<<>>)
              /\ Get(ir_status, d, FALSE) = FALSE

C19_Witness ==
    /\ ir_reads > 0
    /\ ir_pins = {"front", "left", "right"}
    /\ gpio["front"] = "error"
    /\ gpio["left"] = "LOW"
    /\ gpio["right"] = "HIGH"
    /\ ir_status = [d \in ir_pins |-> d = "left"]

(***************************************************************************)
(* RoverMainControl.run and what it calls, rover_main.py:136-446.          *)
(*                                                                         *)
(* The motor calls of execute_action (363-378) and stop (433) are shipped  *)
(* commented out, "uncomment when motors are connected": motors_connected  *)
(* says whether they are live.  make_navigation_decision's two inputs are  *)
(* locals, read anew in every tick (289-295); the loop draws them from     *)
(* every IR snapshot and camera decision.  A log entry keeps its action    *)
(* and position; file writes succeed.                                      *)
(***************************************************************************)
MaxTicks == 3

\* round(v, 2), rover_main.py:139-140
Round2(v) == FloatLit(RoundHalfEven(v * 100, Pow2(FracBits)), 100)

\* get_position, rover_main.py:136-142
get_position(pos) ==
    [x |-> Round2(pos.x), y |-> Round2(pos.y), heading |-> pos.heading]

\* log_data with save_log_to_file, rover_main.py:146-179: the new data_log
\* and the new content of the log file.
log_data_without_save(log, file, action, pos) ==
    [data_log |-> Append(log, [action |-> action, position |-> pos]),
     log_file |-> file]

log_data(log, file, action, pos) ==
    LET appended == Append(log, [action |-> action, position |-> pos])
    IN  [data_log |-> appended,
         log_file |-> IF Len(appended) % 10 = 0 THEN appended ELSE file]

\* time.sleep(2) at the end of study_location, rover_main.py:277
study_pause == 20

\* should_study_location, rover_main.py:214-222
should_study_location_ignores_config(enabled, current_time, last) ==
    current_time - last >= study_interval

should_study_location(enabled, current_time, last) ==
    enabled /\ current_time - last >= study_interval

\* The motor method execute_action calls for a decision, rover_main.py:364-377
motor_call(d) ==
    CASE d.action = "forward"    -> Command("move_forward", TRUE, d.duration)
      [] d.action = "backward"   -> Command("move_backward", TRUE, d.duration)
      [] d.action = "turn_left"  -> Command("turn_left", TRUE, d.duration)
      [] d.action = "turn_right" -> Command("turn_right", TRUE, d.duration)
      [] d.action = "spin_left"  -> Command("spin_left", TRUE, d.duration)
      [] d.action = "spin_right" -> Command("spin_right", TRUE, d.duration)
      [] d.action = "stop"       -> Command("stop", FALSE, 0)

\* How much longer than asked a time.sleep can take, in tenths of a second.
SleepOverruns == {0, 1}

RunningPcs ==
    {"loop", "study", "study_log", "decide", "execute", "moving", "update",
     "update_y", "log", "sleep"}

InitLoop ==
    /\ ir_status = [d \in IrDirections |-> FALSE]
    /\ camera_decision = [k \in {"recommended_direction"} |-> "front"]
    /\ decision = NoDecision
    /\ motor_command = NoCommand
    /\ position = InitialPosition
    /\ updates = <<>>
    /\ DetectorUnused
    /\ SensorsUnused
    /\ pc = "loop"
    /\ loop_count = 0
    /\ data_log = <<>>
    /\ log_file = <<>>
    /\ now = study_interval
    /\ last_study_time = 0
    /\ auto_study_enabled \in BOOLEAN
    /\ motors_connected \in BOOLEAN
    /\ motors = "idle"
    /\ elapsed = 0
    /\ tick_updates = 0
    /\ executed = 0
    /\ failures = 0

\* run, rover_main.py:401-409: the top of the while loop
BeginTick ==
    /\ pc = "loop"
    /\ loop_count < MaxTicks
    /\ loop_count' = loop_count + 1
    /\ pc' = IF should_study_location(auto_study_enabled, now, last_study_time)
                THEN "study" ELSE "decide"
    /\ tick_updates' = 0
    /\ elapsed' = 0
    /\ UNCHANGED <<ir_status, camera_decision, decision, motor_command, position,
                   updates, detectorVars, sensorVars, data_log, log_file, now,
                   last_study_time, configVars, motors, executed, failures>>

\* study_location, rover_main.py:229-267: three readings a second apart
StudyReadings ==
    /\ pc = "study"
    /\ now' = now + 30
    /\ pc' = "study_log"
    /\ UNCHANGED <<ir_status, camera_decision, decision, motor_command, position,
                   updates, detectorVars, sensorVars, loop_count, data_log,
                   log_file, last_study_time, configVars, motors, elapsed,
                   tick_updates, executed, failures>>

\* study_location, rover_main.py:269-277: log, note the time, pause 2 s
StudyLog ==
    /\ pc = "study_log"
    /\ LET logged == log_data(data_log, log_file, "STUDY_LOCATION",
                              get_position(position))
       IN  /\ data_log' = logged.data_log
           /\ log_file' = logged.log_file
    /\ last_study_time' = now
    /\ now' = now + study_pause
    /\ pc' = "decide"
    /\ UNCHANGED <<ir_status, camera_decision, decision, motor_command, position,
                   updates, detectorVars, sensorVars, loop_count, configVars,
                   motors, elapsed, tick_updates, executed, failures>>

\* run, rover_main.py:412: decision = self.make_navigation_decision()
Decide ==
    /\ pc = "decide"
    /\ \E ir \in IrSnapshots, cam \in CameraDecisions :
          decision' = make_navigation_decision(ir, cam)
    /\ pc' = "execute"
    /\ UNCHANGED <<ir_status, camera_decision, motor_command, position, updates,
                   detectorVars, sensorVars, loop_count, data_log, log_file, now,
                   last_study_time, configVars, motors, elapsed, tick_updates,
                   executed, failures>>

\* execute_action, rover_main.py:356-378, motors not connected: no motor call
ExecuteUnconnected ==
    /\ pc = "execute"
    /\ ~motors_connected
    /\ executed' = executed + 1
    /\ pc' = "update"
    /\ UNCHANGED <<ir_status, camera_decision, decision, motor_command, position,
                   updates, detectorVars, sensorVars, loop_count, data_log,
                   log_file, now, last_study_time, configVars, motors, elapsed,
                   tick_updates, failures>>

\* execute_action, rover_main.py:376-377: self.motors.stop()
ExecuteStop ==
    /\ pc = "execute"
    /\ motors_connected
    /\ decision.action = "stop"
    /\ motor_command' = motor_call(decision)
    /\ motors' = "idle"
    /\ executed' = executed + 1
    /\ pc' = "update"
    /\ UNCHANGED <<ir_status, camera_decision, decision, position, updates,
                   detectorVars, sensorVars, loop_count, data_log, log_file, now,
                   last_study_time, configVars, elapsed, tick_updates, failures>>

\* execute_action, rover_main.py:364-375, and the motor method up to its
\* time.sleep(duration), motor_controller_1.py:103-196
ExecuteMove ==
    /\ pc = "execute"
    /\ motors_connected
    /\ decision.action # "stop"
    /\ motor_command' = motor_call(decision)
    /\ motors' = "running"
    /\ pc' = "moving"
    /\ UNCHANGED <<ir_status, camera_decision, decision, position, updates,
                   detectorVars, sensorVars, loop_count, data_log, log_file, now,
                   last_study_time, configVars, elapsed, tick_updates, executed,
                   failures>>

\* The motor method after its time.sleep(duration): self.stop(),
\* motor_controller_1.py:118-120
FinishMove ==
    /\ pc = "moving"
    /\ \E late \in SleepOverruns : elapsed' = decision.duration + late
    /\ now' = now + elapsed'
    /\ motors' = "idle"
    /\ executed' = executed + 1
    /\ pc' = "update"
    /\ UNCHANGED <<ir_status, camera_decision, decision, motor_command, position,
                   updates, detectorVars, sensorVars, loop_count, data_log,
                   log_file, last_study_time, configVars, tick_updates, failures>>

\* A motor call raises (a GPIO error): nothing in execute_action or run
\* catches it (run catches KeyboardInterrupt only, rover_main.py:424), so it
\* leaves run.
ActuationFails ==
    /\ pc = "execute"
    /\ motors_connected
    /\ motor_command' = motor_call(decision)
    /\ \E state \in {"idle", "running"} : motors' = state
    /\ failures' = failures + 1
    /\ pc' = "crashed"
    /\ UNCHANGED <<ir_status, camera_decision, decision, position, updates,
                   detectorVars, sensorVars, loop_count, data_log, log_file, now,
                   last_study_time, configVars, elapsed, tick_updates, executed>>

\* execute_action, rover_main.py:381-382, and update_position up to its
\* first assignment (117, 121, 125-134); forward and backward assign x and
\* then y.
UpdateBegin ==
    /\ pc = "update"
    /\ IF decision.direction = None
          THEN /\ pc' = "log"
               /\ UNCHANGED <<position, updates, tick_updates>>
          ELSE /\ LET new == update_position(position, decision.direction,
                                             decision.duration)
                  IN  IF decision.direction \in {"forward", "backward"}
                         THEN /\ position' = [position EXCEPT !.x = new.x]
                              /\ pc' = "update_y"
                         ELSE /\ position' = new
                              /\ pc' = "log"
               /\ updates' = Append(updates, [direction |-> decision.direction,
                                              duration |-> decision.duration,
                                              before |-> position])
               /\ tick_updates' = tick_updates + 1
    /\ UNCHANGED <<ir_status, camera_decision, decision, motor_command,
                   detectorVars, sensorVars, loop_count, data_log, log_file, now,
                   last_study_time, configVars, motors, elapsed, executed,
                   failures>>

\* update_position, rover_main.py:118, 122: the assignment to y
UpdateY ==
    /\ pc = "update_y"
    /\ position' = update_position(Last(1).before, Last(1).direction,
                                   Last(1).duration)
    /\ pc' = "log"
    /\ UNCHANGED <<ir_status, camera_decision, decision, motor_command, updates,
                   detectorVars, sensorVars, loop_count, data_log, log_file, now,
                   last_study_time, configVars, motors, elapsed, tick_updates,
                   executed, failures>>

\* execute_action, rover_main.py:385-387
LogAction_rounds_pose_in_place ==
    /\ pc = "log"
    /\ LET logged == log_data(data_log, log_file, decision.action,
                              get_position(position))
       IN  /\ data_log' = logged.data_log
           /\ log_file' = logged.log_file
    /\ position' = get_position(position)
    /\ pc' = "sleep"
    /\ UNCHANGED <<ir_status, camera_decision, decision, motor_command,
                   updates, detectorVars, sensorVars, loop_count, now,
                   last_study_time, configVars, motors, elapsed, tick_updates,
                   executed, failures>>

LogAction ==
    /\ pc = "log"
    /\ LET logged == log_data(data_log, log_file, decision.action,
                              get_position(position))
       IN  /\ data_log' = logged.data_log
           /\ log_file' = logged.log_file
    /\ pc' = "sleep"
    /\ UNCHANGED <<ir_status, camera_decision, decision, motor_command, position,
                   updates, detectorVars, sensorVars, loop_count, now,
                   last_study_time, configVars, motors, elapsed, tick_updates,
                   executed, failures>>

\* run, rover_main.py:418-422: time.sleep(0.5)
Sleep ==
    /\ pc = "sleep"
    /\ now' = now + 5
    /\ pc' = "loop"
    /\ UNCHANGED <<ir_status, camera_decision, decision, motor_command, position,
                   updates, detectorVars, sensorVars, loop_count, data_log,
                   log_file, last_study_time, configVars, motors, elapsed,
                   tick_updates, executed, failures>>

\* KeyboardInterrupt anywhere in the try block, and stop(),
\* rover_main.py:424-446
Interrupt ==
    /\ pc \in RunningPcs
    /\ motors' = IF motors_connected THEN "idle" ELSE motors
    /\ log_file' = data_log
    /\ pc' = "stopped"
    /\ UNCHANGED <<ir_status, camera_decision, decision, motor_command, position,
                   updates, detectorVars, sensorVars, loop_count, data_log, now,
                   last_study_time, configVars, elapsed, tick_updates, executed,
                   failures>>

Next ==
    \/ BeginTick
    \/ StudyReadings
    \/ StudyLog
    \/ Decide
    \/ ExecuteUnconnected
    \/ ExecuteStop
    \/ ExecuteMove
    \/ FinishMove
    \/ ActuationFails
    \/ UpdateBegin
    \/ UpdateY
    \/ LogAction
    \/ Sleep
    \/ Interrupt

Spec == InitLoop /\ [][Next]_vars

(***************************************************************************)
(* Properties of the control loop.                                         *)
(***************************************************************************)
\* The log entries execute_action wrote
ActionEntries == {i \in DOMAIN data_log : data_log[i].action # "STUDY_LOCATION"}

\* The pose after a whole number of completed updates
WholePose ==
    IF updates = <<>>
       THEN position = InitialPosition
       ELSE position = update_position(Last(1).before, Last(1).direction,
                                       Last(1).duration)

\* C17: in every tick, once the decision is executed and its pose update is
\* over (the loop is about to log the action), update_position has been
\* called exactly once in this tick, stop decisions included, and the time
\* it integrated is the time the command actually took, not the nominal
\* duration of the decision.
C17_OneUpdatePerTickWithActualTime ==
    pc = "log" =>
        /\ tick_updates = 1
        /\ Last(1).duration = elapsed

\* C18: after an operator interrupt, wherever it arrived, the motors are
\* stopped, the log file holds the whole log, the pose is the result of a
\* whole number of completed updates, and every executed decision is both
\* in the log and in the pose.
C18_InterruptLeavesWholeState ==
    pc = "stopped" =>
        /\ motors = "idle"
        /\ log_file = data_log
        /\ WholePose
        /\ Cardinality(ActionEntries) = executed
        /\ (decision.direction # None /\ executed = loop_count
               => tick_updates = 1)

\* C20: an actuation command that fails during a tick does not terminate the
\* control loop: the motors are stopped and the loop goes on.
C20_ActuationFailureKeepsLoopRunning ==
    failures > 0 => pc \in RunningPcs /\ motors = "idle"

(***************************************************************************)
(* The two fusion implementations side by side, checked under SpecDecide.  *)
(***************************************************************************)
\* The motor method that carries out an action of make_navigation_decision
\* (execute_action, rover_main.py:364-377).
MethodOf(action) ==
    CASE action = "forward"    -> "move_forward"
      [] action = "backward"   -> "move_backward"
      [] action = "turn_left"  -> "turn_left"
      [] action = "turn_right" -> "turn_right"
      [] action = "spin_left"  -> "spin_left"
      [] action = "spin_right" -> "spin_right"
      [] action = "stop"       -> "stop"

\* C27: for every IR snapshot and every camera decision, the action chosen
\* by make_navigation_decision is the same movement, with the same
\* duration, as the motor command navigate_with_camera_and_ir issues.
C27_FusionImplementationsAgree ==
    (Decided /\ Commanded) =>
        /\ motor_command.method = MethodOf(decision.action)
        /\ decision.action # "stop" =>
              /\ motor_command.timed
              /\ motor_command.duration = decision.duration

(***************************************************************************)
(* MotorController.navigate_with_ir, motor_controller_1.py:205-242: the    *)
(* movement method it calls for an IR snapshot.                            *)
(***************************************************************************)
navigate_with_ir_left_first(ir) ==
    IF ~Get(ir, "front", FALSE)
        THEN Command("move_forward", FALSE, 0)
    ELSE IF ~Get(ir, "left", FALSE)
        THEN Command("turn_left", TRUE, 5)
    ELSE IF ~Get(ir, "right", FALSE)
        THEN Command("turn_right", TRUE, 5)
    ELSE IF ~Get(ir, "back", FALSE)
        THEN Command("move_backward", TRUE, 10)
    ELSE Command("stop", FALSE, 0)

navigate_with_ir(ir) ==
    IF ~Get(ir, "front", FALSE)
        THEN Command("move_forward", FALSE, 0)
    ELSE IF ~Get(ir, "right", FALSE)
        THEN Command("turn_right", TRUE, 5)
    ELSE IF ~Get(ir, "left", FALSE)
        THEN Command("turn_left", TRUE, 5)
    ELSE IF ~Get(ir, "back", FALSE)
        THEN Command("move_backward", TRUE, 10)
    ELSE Command("stop", FALSE, 0)

NavigateWithIr ==
    /\ motor_command = NoCommand
    /\ motor_command' = navigate_with_ir(ir_status)
    /\ UNCHANGED <<ir_status, camera_decision, decision, position, updates,
                   detectorVars, sensorVars, loopVars>>

NextIr == NavigateWithIr

SpecIr == InitDecide /\ [][NextIr]_vars

\* The direction a movement method heads for.
Toward(method) ==
    CASE method = "move_forward"  -> "front"
      [] method = "turn_right"    -> "right"
      [] method = "turn_left"     -> "left"
      [] method = "move_backward" -> "back"

\* Place of a direction in navigate_with_ir's order front, right, left, back.
IrRank(d) ==
    CASE d = "front" -> 1 [] d = "right" -> 2 [] d = "left" -> 3 [] d = "back" -> 4

IrBlocked(d) == Get(ir_status, d, FALSE)

\* C30: for every IR snapshot navigate_with_ir commands the first of
\* forward, turn right, turn left, reverse whose direction (front, right,
\* left, back) is not blocked, never a movement toward a blocked direction,
\* and it stops the motors exactly when all four directions are blocked.
C30_IrPriorityOrder ==
    Commanded =>
        /\ motor_command.method = "stop" <=> \A d \in IrDirections : IrBlocked(d)
        /\ motor_command.method # "stop" =>
              /\ motor_command.method
                    \in {"move_forward", "turn_right", "turn_left", "move_backward"}
              /\ ~IrBlocked(Toward(motor_command.method))
              /\ \A d \in IrDirections :
                    IrRank(d) < IrRank(Toward(motor_command.method))
                        => IrBlocked(d)

C30_Witness ==
    /\ Commanded
    /\ IrBlocked("front") /\ IrBlocked("right")
    /\ ~IrBlocked("left") /\ ~IrBlocked("back")
    /\ motor_command = Command("turn_left", TRUE, 5)

(***************************************************************************)
(* RoverMultiCameraDetector.detect_obstacles, obstacle_detector.py:47-89.  *)
(* A frame is its width and height and the contours cv2.findContours gives *)
(* for it; a contour is its bounding rectangle (x, y, w, h) and its area.  *)
(* cv2.contourArea is the area of the polygon through the contour's        *)
(* pixels and cv2.boundingRect counts the pixels, so the area of a contour *)
(* is at most (w - 1) * (h - 1).  rel_x and rel_y are floats.              *)
(***************************************************************************)
\* self.min_obstacle_area = 1500, obstacle_detector.py:35
min_obstacle_area == 1500

\* self.safe_zone_width = 0.4, obstacle_detector.py:36
safe_zone_width == FloatLit(4, 10)

\* The dict detect_obstacles appends for a contour, obstacle_detector.py:73-87
Obstacle_path_includes_edge(img, c) ==
    LET center_x == c.x + c.w \div 2
        center_y == c.y + c.h \div 2
        rel_x == FloatLit(center_x - img.width \div 2, img.width \div 2)
        rel_y == FloatLit(center_y - img.height \div 2, img.height \div 2)
    IN  [bbox |-> <<c.x, c.y, c.w, c.h>>,
         center |-> <<center_x, center_y>>,
         area |-> c.area,
         rel_position |-> <<rel_x, rel_y>>,
         in_path |-> Abs(rel_x) <= FloatRound(safe_zone_width, 2)]

Obstacle(img, c) ==
    LET center_x == c.x + c.w \div 2
        center_y == c.y + c.h \div 2
        rel_x == FloatLit(center_x - img.width \div 2, img.width \div 2)
        rel_y == FloatLit(center_y - img.height \div 2, img.height \div 2)
    IN  [bbox |-> <<c.x, c.y, c.w, c.h>>,
         center |-> <<center_x, center_y>>,
         area |-> c.area,
         rel_position |-> <<rel_x, rel_y>>,
         in_path |-> Abs(rel_x) < FloatRound(safe_zone_width, 2)]

\* detect_obstacles: the obstacles list, or raised when a division by
\* width // 2 or height // 2 is a division by zero.
detect_obstacles_without_area_filter(img, cnts) ==
    IF cnts # <<>> /\ (img.width \div 2 = 0 \/ img.height \div 2 = 0)
        THEN [raised |-> TRUE, obstacles |-> <<>>]
    ELSE [raised |-> FALSE,
          obstacles |-> [i \in DOMAIN cnts |-> Obstacle(img, cnts[i])]]

detect_obstacles(img, cnts) ==
    LET IsObstacle(c) == c.area > min_obstacle_area
        found == SelectSeq(cnts, IsObstacle)
    IN  IF found # <<>> /\ (img.width \div 2 = 0 \/ img.height \div 2 = 0)
            THEN [raised |-> TRUE, obstacles |-> <<>>]
        ELSE [raised |-> FALSE,
              obstacles |-> [i \in DOMAIN found |-> Obstacle(img, found[i])]]

\* What cap.read() and detect_obstacles give analyze_direction for a camera,
\* obstacle_detector.py:102-117.
read_frame(ret, img, cnts) ==
    LET InPath(obs) == obs.in_path
        found == detect_obstacles(img, cnts).obstacles
    IN  IF ~ret
            THEN [ret |-> FALSE, obstacle_count |-> 0, path_obstacles |-> 0]
        ELSE [ret |-> TRUE,
              obstacle_count |-> Len(found),
              path_obstacles |-> Len(SelectSeq(found, InPath))]

(***************************************************************************)
(* Specification of the detector: one camera, present or not, delivering   *)
(* a frame or not, and analyze_direction applied once.  Frames have one    *)
(* side of every length up to MaxSide and the other side either tiny or    *)
(* long enough for a contour to pass the area filter; the one contour of   *)
(* such a frame lies anywhere along the short side.  Frames with several   *)
(* contours are MaxSide wide.                                              *)
(***************************************************************************)
MaxSide == 11

MaxContours == 2

\* The least side along which a contour two pixels wide passes the filter.
LongSide == min_obstacle_area + 2

\* Every run of pixels within a side of length len.
Spans(len) ==
    {sp \in [start : 0..(len - 1), size : 1..len] : sp.start + sp.size <= len}

\* The runs that cover the side, or all of it but one end pixel.
EndSpans(len) ==
    {sp \in [start : {0, 1}, size : {len - 1, len}] :
        sp.size >= 1 /\ sp.start + sp.size <= len}

FarSides == {1, 2, LongSide, LongSide + 1}

Contour(xs, ys, area) ==
    [x |-> xs.start, y |-> ys.start, w |-> xs.size, h |-> ys.size, area |-> area]

Areas(xs, ys) ==
    {a \in {0, min_obstacle_area, min_obstacle_area + 1,
            (xs.size - 1) * (ys.size - 1)} :
        a <= (xs.size - 1) * (ys.size - 1)}

Scene(width, height, cnts) ==
    [image |-> [width |-> width, height |-> height], contours |-> cnts]

\* The contours with their bounding rectangle made of the given runs.
Contours(xspans, yspans) ==
    UNION {{Contour(sp[1], sp[2], a) : a \in Areas(sp[1], sp[2])} :
              sp \in xspans \X yspans}

SingleScenes ==
    UNION {UNION {
        {Scene(short, far, <<c>>) : c \in Contours(Spans(short), EndSpans(far))}
        \cup
        {Scene(far, short, <<c>>) : c \in Contours(EndSpans(far), Spans(short))}
        : far \in FarSides} : short \in 1..MaxSide}

\* Contours two pixels wide over the whole height of the frame.
TallContours ==
    {Contour([start |-> x, size |-> 2], [start |-> 0, size |-> LongSide], a) :
        x \in 0..(MaxSide - 2),
        a \in {min_obstacle_area, min_obstacle_area + 1}}

MultiScenes ==
    UNION {{Scene(MaxSide, LongSide, cnts) : cnts \in [1..n -> TallContours]} :
              n \in {0} \cup 2..MaxContours}

Scenes == SingleScenes \cup MultiScenes

NoScene == Scene(0, 0, <<>>)

InitDetect ==
    /\ ir_status = [d \in IrDirections |-> FALSE]
    /\ camera_decision = EmptyDict
    /\ decision = NoDecision
    /\ motor_command = NoCommand
    /\ position = InitialPosition
    /\ updates = <<>>
    /\ cameras \in {<<>>, <<"front">>}
    /\ \E ret \in BOOLEAN :
       \E scene \in IF cameras # <<>> /\ ret THEN Scenes ELSE {NoScene} :
          /\ image = scene.image
          /\ contours = scene.contours
          /\ frames = [d \in Range(cameras) |->
                          read_frame(ret, scene.image, scene.contours)]
    /\ closed = {}
    /\ obstacles = <<>>
    /\ reading = EmptyDict
    /\ detect_raised = FALSE
    /\ SensorsUnused
    /\ LoopNotStarted

\* analyze_direction('front'), obstacle_detector.py:91-121
AnalyzeDirection ==
    /\ reading = EmptyDict
    /\ ~detect_raised
    /\ LET result == analyze_direction(cameras, frames, "front")
           found == detect_obstacles(image, contours)
       IN  IF result.available /\ found.raised
              THEN /\ detect_raised' = TRUE
                   /\ UNCHANGED <<reading, obstacles>>
              ELSE /\ reading' = result
                   /\ obstacles' = IF result.available THEN found.obstacles
                                                       ELSE <<>>
                   /\ UNCHANGED detect_raised
    /\ UNCHANGED <<ir_status, camera_decision, decision, motor_command, position,
                   updates, cameras, frames, closed, image, contours, sensorVars,
                   loopVars>>

NextDetect == AnalyzeDirection

SpecDetect == InitDetect /\ [][NextDetect]_vars

(***************************************************************************)
(* Properties of the detector, checked under SpecDetect.                   *)
(***************************************************************************)
Analysed == reading # EmptyDict

\* No frame can be obtained: the camera is not there or its read fails.
NoFrame == "front" \notin Range(cameras) \/ ~frames["front"].ret

\* The obstacles detect_obstacles marked in_path.
InPathObstacles == {i \in DOMAIN obstacles : obstacles[i].in_path}

\* C21: analyze_direction returns available = false and clear = false when
\* no frame can be obtained (camera not present or read fails); otherwise
\* available = true, clear = true exactly when no detected obstacle is
\* in_path, and the count of in-path obstacles is at most the count of
\* obstacles.
C21_AnalyzeDirectionReading ==
    Analysed =>
        IF NoFrame
           THEN ~reading.available /\ ~reading.clear
           ELSE /\ reading.available
                /\ reading.clear <=> InPathObstacles = {}
                /\ reading.obstacle_count = Len(obstacles)
                /\ reading.path_obstacles = Cardinality(InPathObstacles)
                /\ reading.path_obstacles <= reading.obstacle_count

C21_Witness ==
    /\ Analysed
    /\ ~NoFrame
    /\ Len(contours) = 2
    /\ reading.obstacle_count = 2
    /\ reading.path_obstacles = 1
    /\ ~reading.clear

C23_RelativePositionBounded ==
    /\ ~detect_raised
    /\ \A i \in DOMAIN obstacles :
          /\ Abs(obstacles[i].rel_position[1]) <= Pow2(FracBits)
          /\ Abs(obstacles[i].rel_position[2]) <= Pow2(FracBits)

C23_Witness ==
    /\ Len(obstacles) = 1
    /\ image.width = 3
    /\ obstacles[1].center[1] = 2
    /\ obstacles[1].rel_position[1] = Pow2(FracBits)

(***************************************************************************)
(* Specification of a detector session: the four cameras of the default    *)
(* camera_indices (obstacle_detector.py:13) opened, then new frames,       *)
(* sources closing or disconnecting, and get_best_direction called again   *)
(* and again.  The read of a closed or disconnected cv2.VideoCapture       *)
(* returns ret = False; nothing in the detector opens a source again.      *)
(***************************************************************************)
NoFrameOutcome == [ret |-> FALSE, obstacle_count |-> 0, path_obstacles |-> 0]

\* No frame, a frame with a clear path, a frame with an obstacle in the path.
SessionOutcomes ==
    {NoFrameOutcome,
     [ret |-> TRUE, obstacle_count |-> 0, path_obstacles |-> 0],
     [ret |-> TRUE, obstacle_count |-> 1, path_obstacles |-> 1]}

InitSession ==
    /\ ir_status = [d \in IrDirections |-> FALSE]
    /\ camera_decision = EmptyDict
    /\ decision = NoDecision
    /\ motor_command = NoCommand
    /\ position = InitialPosition
    /\ updates = <<>>
    /\ cameras = <<"front", "back", "left", "right">>
    /\ frames \in [Range(cameras) -> SessionOutcomes]
    /\ closed = {}
    /\ image = [width |-> 0, height |-> 0]
    /\ contours = <<>>
    /\ obstacles = <<>>
    /\ reading = EmptyDict
    /\ detect_raised = FALSE
    /\ SensorsUnused
    /\ LoopNotStarted

\* The source of a camera is closed or disconnected.
CloseCamera ==
    /\ \E d \in Range(cameras) \ closed :
          /\ closed' = closed \cup {d}
          /\ frames' = [frames EXCEPT ![d] = NoFrameOutcome]
    /\ UNCHANGED <<ir_status, camera_decision, decision, motor_command, position,
                   updates, cameras, image, contours, obstacles, reading,
                   detect_raised, sensorVars, loopVars>>

\* The cameras have new frames to deliver.
NewFrames ==
    /\ frames' \in {f \in [Range(cameras) -> SessionOutcomes] :
                       \A d \in closed : f[d] = NoFrameOutcome}
    /\ UNCHANGED <<ir_status, camera_decision, decision, motor_command, position,
                   updates, cameras, closed, image, contours, obstacles, reading,
                   detect_raised, sensorVars, loopVars>>

\* analyze_direction for any direction, obstacle_detector.py:91-121
AnalyzeAgain ==
    /\ \E d \in IrDirections : reading' = analyze_direction(cameras, frames, d)
    /\ UNCHANGED <<ir_status, camera_decision, decision, motor_command, position,
                   updates, cameras, frames, closed, image, contours, obstacles,
                   detect_raised, sensorVars, loopVars>>

\* get_best_direction, obstacle_detector.py:123-168
GetBestDirectionAgain ==
    /\ camera_decision' = get_best_direction(cameras, frames)
    /\ UNCHANGED <<ir_status, decision, motor_command, position, updates,
                   detectorVars, sensorVars, loopVars>>

NextSession == CloseCamera \/ NewFrames \/ AnalyzeAgain \/ GetBestDirectionAgain

SpecSession == InitSession /\ [][NextSession]_vars

\* C24: once a camera's source is closed or disconnected, every later
\* analyze_direction for its direction returns available = false, and no
\* later get_best_direction recommends that direction.
C24_ClosedCameraStaysUnavailable ==
    /\ [](\A d \in closed : ~analyze_direction(cameras, frames, d).available)
    /\ [][GetBestDirectionAgain =>
             camera_decision'.recommended_direction \notin closed]_vars

C24_Witness ==
    /\ closed = {"front", "left"}
    /\ frames["right"].ret /\ frames["right"].path_obstacles = 0
    /\ frames["back"].ret /\ frames["back"].path_obstacles = 0
    /\ reading = [available |-> FALSE, clear |-> FALSE, obstacle_count |-> 0]
    /\ camera_decision # EmptyDict
    /\ camera_decision.recommended_direction = "right"

(***************************************************************************)
(* The pose and the motors, over the control loop and the fusion logic.    *)
(***************************************************************************)
\* C25: the pose starts at x = 0, y = 0, heading = 0 and only the position
\* update changes it: the steps of make_navigation_decision, get_position,
\* log_data, study_location, save_log_to_file and stop leave x, y and
\* heading as they are, and so does the execution of a stop decision.
C25_PoseChangedOnlyByUpdate ==
    /\ position = InitialPosition
    /\ [][/\ position' # position => UpdateBegin \/ UpdateY
          /\ (pc = "update" /\ decision.action = "stop") => position' = position
         ]_vars

C25_Witness ==
    /\ pc = "stopped"
    /\ position # InitialPosition
    /\ Len(data_log) = 3
    /\ data_log[1].action = "STUDY_LOCATION"
    /\ data_log[1].position = get_position(InitialPosition)
    /\ data_log[3].action = "stop"
    /\ log_file = data_log

\* C26: every motion command issued for a decision (forward, backward,
\* turn, spin) runs for a duration and is followed by a stop of both motors
\* when that duration has elapsed, so that the motors are idle when the
\* next decision is taken.
C26_MotionFollowedByStop ==
    (Commanded /\ motor_command.method # "stop") =>
        /\ motor_command.timed
        /\ motor_command.duration > 0

(***************************************************************************)
(* Long runs of the control loop.  The loop of Spec takes every input in   *)
(* every tick and so stays short; these runs take their inputs from a few  *)
(* and last long enough for the log to reach ten entries and for a second  *)
(* location study to fall due.                                             *)
(***************************************************************************)
\* run, rover_main.py:401-409, for a run of at most limit ticks
BeginTickWithin(limit) ==
    /\ pc = "loop"
    /\ loop_count < limit
    /\ loop_count' = loop_count + 1
    /\ pc' = IF should_study_location(auto_study_enabled, now, last_study_time)
                THEN "study" ELSE "decide"
    /\ tick_updates' = 0
    /\ elapsed' = 0
    /\ UNCHANGED <<ir_status, camera_decision, decision, motor_command, position,
                   updates, detectorVars, sensorVars, data_log, log_file, now,
                   last_study_time, configVars, motors, executed, failures>>

\* run, rover_main.py:412, with the IR snapshot and camera decision among inputs
DecideAmong(inputs) ==
    /\ pc = "decide"
    /\ \E input \in inputs :
          decision' = make_navigation_decision(input[1], input[2])
    /\ pc' = "execute"
    /\ UNCHANGED <<ir_status, camera_decision, motor_command, position, updates,
                   detectorVars, sensorVars, loop_count, data_log, log_file, now,
                   last_study_time, configVars, motors, elapsed, tick_updates,
                   executed, failures>>

AllClear == [d \in {} |-> FALSE]

Recommending(d) == [k \in {"recommended_direction"} |-> d]

(***************************************************************************)
(* The log: the rover as shipped (motors not connected), turning left or   *)
(* reversing in every tick.                                                *)
(***************************************************************************)
MaxLogTicks == 10

LogInputs == {<<AllClear, Recommending("left")>>, <<AllClear, Recommending("back")>>}

InitLog == InitLoop /\ ~motors_connected

BeginLogTick == BeginTickWithin(MaxLogTicks)

DecideLog == DecideAmong(LogInputs)

NextLog ==
    \/ BeginLogTick
    \/ StudyReadings
    \/ StudyLog
    \/ DecideLog
    \/ ExecuteUnconnected
    \/ UpdateBegin
    \/ UpdateY
    \/ LogAction
    \/ Sleep
    \/ Interrupt

SpecLog == InitLog /\ [][NextLog]_vars

\* The step that ends execute_action / that logs a study.
EndsExecuteAction == pc = "log" /\ pc' = "sleep"

EndsStudy == pc = "study_log" /\ pc' = "decide"

\* The pose execute_action has when it logs: that of this tick's update.
PoseAfterUpdate ==
    tick_updates = 1 =>
        position = update_position(Last(1).before, decision.direction,
                                   decision.duration)

\* The log grows by one entry at the end, or stays; the file is written when
\* the log reaches a multiple of 10 entries and at shutdown.
LogGrowsAndIsSaved ==
    /\ ~(EndsExecuteAction \/ EndsStudy) => data_log' = data_log
    /\ EndsStudy => /\ Len(data_log') = Len(data_log) + 1
                    /\ SubSeq(data_log', 1, Len(data_log)) = data_log
                    /\ data_log'[Len(data_log')].action = "STUDY_LOCATION"
    /\ (data_log' # data_log /\ Len(data_log') % 10 = 0) => log_file' = data_log'
    /\ pc' = "stopped" => log_file' = data_log'

\* C28 as stated: the data log is append-only and in execution order, holds
\* one entry per executed decision and one per location study, each
\* decision's entry records the decision's action and the pose as it is
\* right after that decision's position update, and the log is written to
\* file when its length reaches a multiple of 10 and at shutdown.
C28_LogRecordsExactPose ==
    /\ [](pc = "loop" => Cardinality(ActionEntries) = loop_count)
    /\ [][/\ LogGrowsAndIsSaved
          /\ EndsExecuteAction =>
                /\ PoseAfterUpdate
                /\ data_log' = Append(data_log, [action |-> decision.action,
                                                 position |-> position])
         ]_vars

\* C28, amended: as above, but the pose in a decision's entry is the pose
\* right after that decision's position update as get_position returns it,
\* x and y rounded to two decimals.
C28_LogRecordsRoundedPose ==
    /\ [](pc = "loop" => Cardinality(ActionEntries) = loop_count)
    /\ [][/\ LogGrowsAndIsSaved
          /\ EndsExecuteAction =>
                /\ PoseAfterUpdate
                /\ data_log' = Append(data_log,
                                      [action |-> decision.action,
                                       position |-> get_position(position)])
         ]_vars

C28_Witness ==
    /\ pc = "sleep"
    /\ Len(data_log) = 10
    /\ log_file = data_log
    /\ data_log[1].action = "STUDY_LOCATION"
    /\ data_log[10].action = "backward"
    /\ data_log[10].position.x # position.x

(***************************************************************************)
(* The studies: the rover driving forward in every tick.                   *)
(***************************************************************************)
MaxStudyTicks == 13

StudyInputs == {<<AllClear, Recommending("front")>>}

BeginStudyTick == BeginTickWithin(MaxStudyTicks)

DecideStudy == DecideAmong(StudyInputs)

NextStudy ==
    \/ BeginStudyTick
    \/ StudyReadings
    \/ StudyLog
    \/ DecideStudy
    \/ ExecuteUnconnected
    \/ ExecuteMove
    \/ FinishMove
    \/ ActuationFails
    \/ UpdateBegin
    \/ UpdateY
    \/ LogAction
    \/ Sleep
    \/ Interrupt

SpecStudy == InitLoop /\ [][NextStudy]_vars

\* The step at the top of a tick.
BeginsTick == pc = "loop" /\ pc' \in {"study", "decide"}

\* A study comes before its tick's decision, and none happens when disabled.
StudyBeforeDecision ==
    /\ (pc = "study_log" /\ pc' # "stopped") => pc' = "decide"
    /\ decision' # decision => pc = "decide"
    /\ ~auto_study_enabled => pc' \notin {"study", "study_log"}

\* C29 as stated: with auto_study_enabled a tick studies exactly when at
\* least study_interval has passed since the end of the previous study (the
\* first tick always studies), the study precedes the tick's decision, and
\* with auto_study_enabled false no study is ever performed.
C29_StudyDueSinceEndOfStudy ==
    [][/\ StudyBeforeDecision
       /\ BeginsTick =>
             (pc' = "study" <=>
                 /\ auto_study_enabled
                 /\ \/ last_study_time = 0
                    \/ now - (last_study_time + study_pause) >= study_interval)
      ]_vars

\* C29, amended: the interval is counted from the moment the previous study
\* logged its result (last_study_time, two seconds before that study
\* ended), not from its end.
C29_StudyDueSinceStudyLogged ==
    [][/\ StudyBeforeDecision
       /\ BeginsTick =>
             (pc' = "study" <=>
                 /\ auto_study_enabled
                 /\ now - last_study_time >= study_interval)
      ]_vars

C29_Witness ==
    /\ pc = "study"
    /\ last_study_time # 0
    /\ now - last_study_time >= study_interval
    /\ now - (last_study_time + study_pause) < study_interval
    /\ Cardinality({i \in DOMAIN data_log :
                       data_log[i].action = "STUDY_LOCATION"}) = 1

=============================================================================
